---- MODULE Spec2Model ----
(***************************************************************************)
(* Model of advanced_reserves_calculator.py: a Streamlit script that reads *)
(* six reservoir inputs and three analysis selections, computes the base   *)
(* case OOIP and recoverable reserves, a single-parameter sweep, a tornado *)
(* evaluation and a two-parameter matrix, and on request exports the       *)
(* results to a workbook whose sheet names come from                       *)
(* get_unique_sheet_name.                                                  *)
(*                                                                         *)
(* Numbers.  The script computes with Python floats.  The model computes   *)
(* with exact rationals, so that equalities and orderings between computed *)
(* values are those of the formulas and not of a rounding mode.  A number  *)
(* is the record [n, d, e2, e5] standing for (n / d) * 2^e2 * 5^e5 with    *)
(* d > 0, n and d coprime and neither divisible by 2 or 5; the form is     *)
(* unique, so two numbers are equal exactly when their records are equal.  *)
(* Keeping the powers of 2 and 5 apart keeps n and d small for the round   *)
(* decimal quantities the widgets produce.                                 *)
(***************************************************************************)
EXTENDS Integers, Sequences, FiniteSets, TLC

----------------------------------------------------------------------------
(* Exact arithmetic *)

RECURSIVE GCD(_, _)
GCD(a, b) == IF b = 0 THEN a ELSE GCD(b, a % b)

RECURSIVE Pow(_, _)
Pow(b, e) == IF e <= 0 THEN 1 ELSE b * Pow(b, e - 1)

\* multiplicity of the prime p in n (n # 0), and n without its factors p
RECURSIVE Mult(_, _)
Mult(n, p) == IF n % p = 0 THEN 1 + Mult(n \div p, p) ELSE 0

RECURSIVE Strip(_, _)
Strip(n, p) == IF n % p = 0 THEN Strip(n \div p, p) ELSE n

Abs(n) == IF n < 0 THEN -n ELSE n

Min2(a, b) == IF a < b THEN a ELSE b

Zero == [n |-> 0, d |-> 1, e2 |-> 0, e5 |-> 0]

One == [n |-> 1, d |-> 1, e2 |-> 0, e5 |-> 0]

\* 100 = 2^2 * 5^2
Hundred == [n |-> 1, d |-> 1, e2 |-> 2, e5 |-> 2]

\* (n / d) * 2^e2 * 5^e5 for n and d coprime, n # 0
pull_out(n, d, e2, e5) ==
    [n  |-> Strip(Strip(n, 2), 5),
     d  |-> Strip(Strip(d, 2), 5),
     e2 |-> e2 + Mult(n, 2) - Mult(d, 2),
     e5 |-> e5 + Mult(n, 5) - Mult(d, 5)]

reduced(n, d, e2, e5, g) == pull_out(n \div g, d \div g, e2, e5)

\* (n / d) * 2^e2 * 5^e5 for d > 0
Norm(n, d, e2, e5) ==
    IF n = 0 THEN Zero ELSE reduced(n, d, e2, e5, GCD(Abs(n), d))

\* the number n / d, and the integer k
Frac(n, d) == Norm(n, d, 0, 0)

Num(k) == Norm(k, 1, 0, 0)

mul_reduced(x, y, g1, g2) ==
    [n  |-> (x.n \div g1) * (y.n \div g2),
     d  |-> (x.d \div g2) * (y.d \div g1),
     e2 |-> x.e2 + y.e2,
     e5 |-> x.e5 + y.e5]

Mul(x, y) ==
    IF x.n = 0 \/ y.n = 0 THEN Zero
    ELSE mul_reduced(x, y, GCD(Abs(x.n), y.d), GCD(Abs(y.n), x.d))

\* 1 / x for x # 0
Inv(x) ==
    [n  |-> IF x.n < 0 THEN -x.d ELSE x.d,
     d  |-> Abs(x.n),
     e2 |-> -x.e2,
     e5 |-> -x.e5]

Div(x, y) == Mul(x, Inv(y))

Neg(x) == [x EXCEPT !.n = -x.n]

\* the numerator of x over the common factor 2^a * 5^b
scaled(x, a, b) == x.n * Pow(2, x.e2 - a) * Pow(5, x.e5 - b)

add_aligned(x, y, a, b, g) ==
    Norm(scaled(x, a, b) * (y.d \div g) + scaled(y, a, b) * (x.d \div g),
         (x.d \div g) * y.d, a, b)

Add(x, y) ==
    IF x.n = 0 THEN y
    ELSE IF y.n = 0 THEN x
    ELSE add_aligned(x, y, Min2(x.e2, y.e2), Min2(x.e5, y.e5), GCD(x.d, y.d))

Sub(x, y) == Add(x, Neg(y))

\* q < 1 for q > 0
below_one(q) ==
    q.n * Pow(2, q.e2) * Pow(5, q.e5) < q.d * Pow(2, -q.e2) * Pow(5, -q.e5)

\* x < y, decided on the quotient x / y when both have the same sign
Less(x, y) ==
    IF x = y THEN FALSE
    ELSE IF x.n > 0 /\ y.n > 0 THEN below_one(Div(x, y))
    ELSE IF x.n < 0 /\ y.n < 0 THEN below_one(Div(y, x))
    ELSE x.n < y.n

Leq(x, y) == x = y \/ Less(x, y)

smaller(a, b) == IF Less(b, a) THEN b ELSE a

larger(a, b) == IF Less(a, b) THEN b ELSE a

\* min(...) and max(...) of the entries lo .. hi of a list
RECURSIVE seq_min(_, _, _)
seq_min(s, lo, hi) ==
    IF lo = hi THEN s[lo]
    ELSE smaller(seq_min(s, lo, (lo + hi) \div 2),
                 seq_min(s, ((lo + hi) \div 2) + 1, hi))

RECURSIVE seq_max(_, _, _)
seq_max(s, lo, hi) ==
    IF lo = hi THEN s[lo]
    ELSE larger(seq_max(s, lo, (lo + hi) \div 2),
                seq_max(s, ((lo + hi) \div 2) + 1, hi))

\* a list or array built by a loop, as a sequence of n entries
list(f, n) == SubSeq(f, 1, n)

evenly_spaced(start, step, num) ==
    list([k \in 1..num |-> Add(start, Mul(Num(k - 1), step))], num)

\* np.linspace(start, stop, num): num evenly spaced values, both ends included
linspace(start, stop, num) ==
    evenly_spaced(start, Div(Sub(stop, start), Num(num - 1)), num)

----------------------------------------------------------------------------
(* The widgets *)

\* the options of the three selectboxes, in display order
Parameters ==
    <<"Area", "Thickness", "Porosity", "Water Saturation", "Oil FVF",
      "Recovery Factor">>

ParameterSet == {Parameters[k] : k \in 1..Len(Parameters)}

\* values each input widget is driven to: its min_value, its default and its
\* max_value
area_choices == {Num(10), Num(1000), Num(100000)}

thickness_choices == {Num(5), Num(50), Num(1000)}

porosity_choices == {Num(5), Num(20), Num(40)}

\* variant: the slider runs up to 100 %
water_saturation_choices_bad == {Num(5), Num(25), Num(100)}

water_saturation_choices == {Num(5), Num(25), Num(50)}

oil_fvf_choices == {Num(1), Frac(13, 10), Frac(5, 2)}

recovery_factor_choices == {Num(5), Num(30), Num(60)}

\* the six inputs of a run and the three decimals the script derives from the
\* percentages
inputs(a, h, p, w, b, r) ==
    [area |-> a, thickness |-> h, porosity |-> p, water_saturation |-> w,
     oil_fvf |-> b, recovery_factor |-> r,
     porosity_decimal |-> Div(p, Hundred),
     water_saturation_decimal |-> Div(w, Hundred),
     recovery_factor_decimal |-> Div(r, Hundred)]

\* the widgets' default values
default_inputs ==
    inputs(Num(1000), Num(50), Num(20), Num(25), Frac(13, 10), Num(30))

\* eval(param.lower().replace(' ', '_')): the input a parameter name denotes
eval_param(inp, param) ==
    CASE param = "Area" -> inp.area
      [] param = "Thickness" -> inp.thickness
      [] param = "Porosity" -> inp.porosity
      [] param = "Water Saturation" -> inp.water_saturation
      [] param = "Oil FVF" -> inp.oil_fvf
      [] param = "Recovery Factor" -> inp.recovery_factor

----------------------------------------------------------------------------
(* Base case *)

\* variant: (1 + Sw) in place of (1 - Sw)
volumetric_bad(a, h, phi, sw, bo) ==
    Div(Mul(Mul(Mul(Mul(Num(7758), a), h), phi), Add(One, sw)), bo)

\* (7758 * A * h * phi * (1 - Sw)) / Bo
volumetric(a, h, phi, sw, bo) ==
    Div(Mul(Mul(Mul(Mul(Num(7758), a), h), phi), Sub(One, sw)), bo)

\* the formula on its five operands in the order area, thickness, porosity,
\* water saturation, oil FVF
volumetric_of(operands) ==
    volumetric(operands[1], operands[2], operands[3], operands[4], operands[5])

base_case_ooip(inp) ==
    volumetric(inp.area, inp.thickness, inp.porosity_decimal,
               inp.water_saturation_decimal, inp.oil_fvf)

base_case_recoverable(inp, base) == Mul(base, inp.recovery_factor_decimal)

----------------------------------------------------------------------------
(* Tab 1: single-parameter sweep *)

\* the third argument of every np.linspace of param_ranges
sweep_points == 100

\* variant: Oil FVF swept over 0.5 .. 1.5 like the other parameters
param_ranges_bad(inp, param) ==
    linspace(Mul(eval_param(inp, param), Frac(5, 10)),
             Mul(eval_param(inp, param), Frac(15, 10)), sweep_points)

\* param_ranges[param]: Oil FVF spans 0.8 .. 1.2 of its base, the others 0.5 .. 1.5
param_ranges(inp, param) ==
    IF param = "Oil FVF"
    THEN linspace(Mul(inp.oil_fvf, Frac(8, 10)), Mul(inp.oil_fvf, Frac(12, 10)),
                  sweep_points)
    ELSE linspace(Mul(eval_param(inp, param), Frac(5, 10)),
                  Mul(eval_param(inp, param), Frac(15, 10)), sweep_points)

\* the operands of the formula in the branch of the sweep loop taken for param
sweep_operands(inp, param, value) ==
    CASE param = "Area" ->
           <<value, inp.thickness, inp.porosity_decimal,
             inp.water_saturation_decimal, inp.oil_fvf>>
      [] param = "Thickness" ->
           <<inp.area, value, inp.porosity_decimal,
             inp.water_saturation_decimal, inp.oil_fvf>>
      [] param = "Porosity" ->
           <<inp.area, inp.thickness, Div(value, Hundred),
             inp.water_saturation_decimal, inp.oil_fvf>>
      [] param = "Water Saturation" ->
           <<inp.area, inp.thickness, inp.porosity_decimal,
             Div(value, Hundred), inp.oil_fvf>>
      [] param = "Oil FVF" ->
           <<inp.area, inp.thickness, inp.porosity_decimal,
             inp.water_saturation_decimal, value>>

\* variant: the Recovery Factor branch scales OOIP by the swept value
sweep_temp_ooip_bad(inp, base, param, value) ==
    IF param = "Recovery Factor"
    THEN Mul(base, Div(value, Hundred))
    ELSE volumetric_of(sweep_operands(inp, param, value))

\* temp_ooip of the sweep loop, for one swept value
sweep_temp_ooip(inp, base, param, value) ==
    IF param = "Recovery Factor"
    THEN base
    ELSE volumetric_of(sweep_operands(inp, param, value))

\* temp_recoverable of the sweep loop
sweep_temp_recoverable(inp, base, param, value, temp_ooip) ==
    IF param = "Recovery Factor"
    THEN Mul(base, Div(value, Hundred))
    ELSE Mul(temp_ooip, inp.recovery_factor_decimal)

----------------------------------------------------------------------------
(* Tab 2: tornado *)

variation_percent == Frac(2, 10)

param_low_value(inp, param) ==
    Mul(eval_param(inp, param), Sub(One, variation_percent))

param_high_value(inp, param) ==
    Mul(eval_param(inp, param), Add(One, variation_percent))

\* the operands of the formula in the branch of the tornado loop taken for
\* param, with v the perturbed value the branch uses
tornado_operands(inp, param, v) ==
    CASE param = "Area" ->
           <<v, inp.thickness, inp.porosity_decimal,
             inp.water_saturation_decimal, inp.oil_fvf>>
      [] param = "Thickness" ->
           <<inp.area, v, inp.porosity_decimal,
             inp.water_saturation_decimal, inp.oil_fvf>>
      [] param = "Porosity" ->
           <<inp.area, inp.thickness, Div(v, Hundred),
             inp.water_saturation_decimal, inp.oil_fvf>>
      [] param = "Water Saturation" ->
           <<inp.area, inp.thickness, inp.porosity_decimal,
             Div(v, Hundred), inp.oil_fvf>>
      [] param = "Oil FVF" ->
           <<inp.area, inp.thickness, inp.porosity_decimal,
             inp.water_saturation_decimal, v>>

\* variant: the Oil FVF branch divides by the low value like the others
tornado_ooip_low_bad(inp, base, param, low, high) ==
    IF param = "Recovery Factor"
    THEN base
    ELSE volumetric_of(tornado_operands(inp, param, low))

\* ooip_low[param]: the branch for Oil FVF divides by the high value
tornado_ooip_low(inp, base, param, low, high) ==
    IF param = "Recovery Factor"
    THEN base
    ELSE volumetric_of(
             tornado_operands(inp, param, IF param = "Oil FVF" THEN high ELSE low))

\* variant: the Recovery Factor branch scales OOIP by the perturbation
tornado_ooip_high_bad(inp, base, param, low, high) ==
    IF param = "Recovery Factor"
    THEN Mul(base, Div(high, inp.recovery_factor))
    ELSE volumetric_of(
             tornado_operands(inp, param, IF param = "Oil FVF" THEN low ELSE high))

\* ooip_high[param]: the branch for Oil FVF divides by the low value
tornado_ooip_high(inp, base, param, low, high) ==
    IF param = "Recovery Factor"
    THEN base
    ELSE volumetric_of(
             tornado_operands(inp, param, IF param = "Oil FVF" THEN low ELSE high))

\* recoverable_low[param] and recoverable_high[param]: v is the perturbed
\* value and temp the ooip_low or ooip_high entry
tornado_recoverable(inp, base, param, v, temp) ==
    IF param = "Recovery Factor"
    THEN Mul(base, Div(v, Hundred))
    ELSE Mul(temp, inp.recovery_factor_decimal)

----------------------------------------------------------------------------
(* Tab 3: two-parameter matrix *)

\* the third argument of the np.linspace of param1_range and param2_range
matrix_points == 10

\* param1_range / param2_range: 0.8 .. 1.2 of the selected input
matrix_range(inp, param) ==
    linspace(Mul(eval_param(inp, param), Frac(8, 10)),
             Mul(eval_param(inp, param), Frac(12, 10)), matrix_points)

\* the operands of the formula in the branch of the matrix loop taken for
\* (param1, param2): one branch per pair the script lists, none (<<>>) for
\* any other selection
matrix_operands(inp, name1, name2, p1, p2) ==
    CASE name1 = "Area" /\ name2 = "Thickness" ->
           <<p1, p2, inp.porosity_decimal,
             inp.water_saturation_decimal, inp.oil_fvf>>
      [] name1 = "Area" /\ name2 = "Porosity" ->
           <<p1, inp.thickness, Div(p2, Hundred),
             inp.water_saturation_decimal, inp.oil_fvf>>
      [] name1 = "Area" /\ name2 = "Water Saturation" ->
           <<p1, inp.thickness, inp.porosity_decimal,
             Div(p2, Hundred), inp.oil_fvf>>
      [] name1 = "Area" /\ name2 = "Oil FVF" ->
           <<p1, inp.thickness, inp.porosity_decimal,
             inp.water_saturation_decimal, p2>>
      [] name1 = "Area" /\ name2 = "Recovery Factor" ->
           <<p1, inp.thickness, inp.porosity_decimal,
             inp.water_saturation_decimal, inp.oil_fvf>>
      [] name1 = "Thickness" /\ name2 = "Porosity" ->
           <<inp.area, p1, Div(p2, Hundred),
             inp.water_saturation_decimal, inp.oil_fvf>>
      [] name1 = "Thickness" /\ name2 = "Water Saturation" ->
           <<inp.area, p1, inp.porosity_decimal,
             Div(p2, Hundred), inp.oil_fvf>>
      [] name1 = "Thickness" /\ name2 = "Oil FVF" ->
           <<inp.area, p1, inp.porosity_decimal,
             inp.water_saturation_decimal, p2>>
      [] name1 = "Thickness" /\ name2 = "Recovery Factor" ->
           <<inp.area, p1, inp.porosity_decimal,
             inp.water_saturation_decimal, inp.oil_fvf>>
      [] name1 = "Porosity" /\ name2 = "Water Saturation" ->
           <<inp.area, inp.thickness, Div(p1, Hundred),
             Div(p2, Hundred), inp.oil_fvf>>
      [] name1 = "Porosity" /\ name2 = "Oil FVF" ->
           <<inp.area, inp.thickness, Div(p1, Hundred),
             inp.water_saturation_decimal, p2>>
      [] name1 = "Porosity" /\ name2 = "Recovery Factor" ->
           <<inp.area, inp.thickness, Div(p1, Hundred),
             inp.water_saturation_decimal, inp.oil_fvf>>
      [] name1 = "Water Saturation" /\ name2 = "Oil FVF" ->
           <<inp.area, inp.thickness, inp.porosity_decimal,
             Div(p1, Hundred), p2>>
      [] name1 = "Water Saturation" /\ name2 = "Recovery Factor" ->
           <<inp.area, inp.thickness, inp.porosity_decimal,
             Div(p1, Hundred), inp.oil_fvf>>
      [] name1 = "Oil FVF" /\ name2 = "Recovery Factor" ->
           <<inp.area, inp.thickness, inp.porosity_decimal,
             inp.water_saturation_decimal, p1>>
      [] OTHER -> <<>>

\* the else branch of the matrix loop assigns base_ooip
ooip_or_base(operands, base) ==
    IF operands = <<>> THEN base ELSE volumetric_of(operands)

\* variant: the same parameter picked twice is swept as one parameter
matrix_temp_ooip_bad(inp, base, name1, name2, p1, p2) ==
    IF name1 = name2
    THEN Mul(base, Div(p1, eval_param(inp, name1)))
    ELSE ooip_or_base(matrix_operands(inp, name1, name2, p1, p2), base)

\* temp_ooip of the matrix loop
matrix_temp_ooip(inp, base, name1, name2, p1, p2) ==
    ooip_or_base(matrix_operands(inp, name1, name2, p1, p2), base)

\* variant: the base recovery factor whatever the selection
matrix_temp_recoverable_bad(inp, name1, name2, p1, p2, temp_ooip) ==
    Mul(temp_ooip, inp.recovery_factor_decimal)

\* temp_recoverable of the matrix loop
matrix_temp_recoverable(inp, name1, name2, p1, p2, temp_ooip) ==
    IF name1 = "Recovery Factor" /\ name2 = "Recovery Factor"
    THEN Mul(temp_ooip, Div(p1, Hundred))
    ELSE IF name1 = "Recovery Factor"
    THEN Mul(temp_ooip, Div(p1, Hundred))
    ELSE IF name2 = "Recovery Factor"
    THEN Mul(temp_ooip, Div(p2, Hundred))
    ELSE Mul(temp_ooip, inp.recovery_factor_decimal)

----------------------------------------------------------------------------
(* Sheet names.  A name is the sequence of its characters. *)

\* base_name[:31]
sheet_name_limit == 31

invalid_chars == {":", "\\", "/", "?", "*", "[", "]"}

elements(seq) == {seq[k] : k \in 1..Len(seq)}

\* str(i) for i >= 0
RECURSIVE decimal(_)
decimal(i) ==
    IF i < 10
    THEN <<(<<"0", "1", "2", "3", "4", "5", "6", "7", "8", "9">>)[i + 1]>>
    ELSE decimal(i \div 10) \o decimal(i % 10)

\* f"{name}_{i}"
suffixed(name, i) == name \o <<"_">> \o decimal(i)

\* the value of i when the while loop ends
RECURSIVE first_free(_, _, _)
first_free(name, used_names, i) ==
    IF suffixed(name, i) \in elements(used_names)
    THEN first_free(name, used_names, i + 1)
    ELSE i

\* the loop of base_name.replace(char, '_')
replace_invalid(base_name) ==
    [k \in 1..Len(base_name) |->
        IF base_name[k] \in invalid_chars THEN "_" ELSE base_name[k]]

\* name = base_name[:31], after the replacement
truncated(base_name) ==
    SubSeq(replace_invalid(base_name), 1, Min2(Len(base_name), sheet_name_limit))

\* variant: the truncated name is returned whether or not it is used
unique_name_bad(name, used_names) == name

\* the name the call returns for the truncated name
unique_name(name, used_names) ==
    IF name \notin elements(used_names)
    THEN name
    ELSE suffixed(name, first_free(name, used_names, 1))

\* the call appends the name it returns to used_names
returning(name, used_names) ==
    [name |-> name, used_names |-> Append(used_names, name)]

\* get_unique_sheet_name(base_name, used_names): the name returned and the
\* list as the call leaves it
get_unique_sheet_name(base_name, used_names) ==
    returning(unique_name(truncated(base_name), used_names), used_names)

\* the characters of the literals the export passes to get_unique_sheet_name
str_base_case == <<"B", "a", "s", "e", " ", "C", "a", "s", "e">>

str_single ==
    <<"S", "i", "n", "g", "l", "e", " ", "P", "a", "r", "a", "m", "e",
      "t", "e", "r", " ", "S", "e", "n", "s", "i", "t", "i", "v", "i",
      "t", "y">>

str_tornado ==
    <<"T", "o", "r", "n", "a", "d", "o", " ", "P", "l", "o", "t", " ",
      "D", "a", "t", "a">>

str_ooip_matrix ==
    <<"O", "O", "I", "P", " ", "M", "a", "t", "r", "i", "x", " ", "-",
      " ">>

str_recoverable_matrix ==
    <<"R", "e", "c", "o", "v", "e", "r", "a", "b", "l", "e", " ", "M",
      "a", "t", "r", "i", "x", " ", "-", " ">>

str_vs == <<" ", "v", "s", " ">>

\* the characters of a parameter name
param_chars(param) ==
    CASE param = "Area" -> <<"A", "r", "e", "a">>
      [] param = "Thickness" -> <<"T", "h", "i", "c", "k", "n", "e", "s", "s">>
      [] param = "Porosity" -> <<"P", "o", "r", "o", "s", "i", "t", "y">>
      [] param = "Water Saturation" ->
           <<"W", "a", "t", "e", "r", " ", "S", "a", "t", "u", "r", "a",
             "t", "i", "o", "n">>
      [] param = "Oil FVF" -> <<"O", "i", "l", " ", "F", "V", "F">>
      [] param = "Recovery Factor" ->
           <<"R", "e", "c", "o", "v", "e", "r", "y", " ", "F", "a", "c",
             "t", "o", "r">>

\* f"OOIP Matrix - {param1} vs {param2}" and its recoverable counterpart
ooip_matrix_title(name1, name2) ==
    str_ooip_matrix \o param_chars(name1) \o str_vs \o param_chars(name2)

recoverable_matrix_title(name1, name2) ==
    str_recoverable_matrix \o param_chars(name1) \o str_vs \o param_chars(name2)

----------------------------------------------------------------------------
(* One run of the script *)

\* tab 1: ooip_values for the swept values xs
sweep_ooip_values(inp, base, param, xs) ==
    list([k \in 1..sweep_points |-> sweep_temp_ooip(inp, base, param, xs[k])],
         sweep_points)

\* tab 1: recoverable_values
sweep_recoverable_values(inp, base, param, xs, os) ==
    list([k \in 1..sweep_points |->
            sweep_temp_recoverable(inp, base, param, xs[k], os[k])],
         sweep_points)

\* tab 1: the three columns of sensitivity_df
sweep_columns(inp, base, param, xs, os) ==
    [param |-> xs, ooip |-> os,
     recoverable |-> sweep_recoverable_values(inp, base, param, xs, os)]

sweep_from(inp, base, param, xs) ==
    sweep_columns(inp, base, param, xs, sweep_ooip_values(inp, base, param, xs))

run_sweep(inp, base, param) ==
    sweep_from(inp, base, param, param_ranges(inp, param))

\* tab 2: the dictionaries of the tornado loop, in insertion order of
\* Parameters
tornado_from(inp, base, low, high, ooip_lo, ooip_hi) ==
    [param_low_values |-> low,
     param_high_values |-> high,
     ooip_low |-> ooip_lo,
     ooip_high |-> ooip_hi,
     recoverable_low |->
        [q \in ParameterSet |-> tornado_recoverable(inp, base, q, low[q], ooip_lo[q])],
     recoverable_high |->
        [q \in ParameterSet |-> tornado_recoverable(inp, base, q, high[q], ooip_hi[q])]]

tornado_on(inp, base, low, high) ==
    tornado_from(inp, base, low, high,
        [q \in ParameterSet |-> tornado_ooip_low(inp, base, q, low[q], high[q])],
        [q \in ParameterSet |-> tornado_ooip_high(inp, base, q, low[q], high[q])])

run_tornado(inp, base) ==
    tornado_on(inp, base,
        [q \in ParameterSet |-> param_low_value(inp, q)],
        [q \in ParameterSet |-> param_high_value(inp, q)])

\* tab 3: the two matrices, indexed [param1 index][param2 index]
matrix_ooip(inp, base, name1, name2, r1, r2) ==
    list([i \in 1..matrix_points |->
            list([j \in 1..matrix_points |->
                    matrix_temp_ooip(inp, base, name1, name2, r1[i], r2[j])],
                 matrix_points)],
         matrix_points)

matrix_recoverable(inp, name1, name2, r1, r2, om) ==
    list([i \in 1..matrix_points |->
            list([j \in 1..matrix_points |->
                    matrix_temp_recoverable(inp, name1, name2, r1[i], r2[j], om[i][j])],
                 matrix_points)],
         matrix_points)

matrix_tables(inp, name1, name2, r1, r2, om) ==
    [param1_range |-> r1, param2_range |-> r2, ooip |-> om,
     recoverable |-> matrix_recoverable(inp, name1, name2, r1, r2, om)]

matrix_from(inp, base, name1, name2, r1, r2) ==
    matrix_tables(inp, name1, name2, r1, r2,
                  matrix_ooip(inp, base, name1, name2, r1, r2))

run_matrix(inp, base, name1, name2) ==
    matrix_from(inp, base, name1, name2, matrix_range(inp, name1),
                matrix_range(inp, name2))

\* the export: the five calls of get_unique_sheet_name, in order, on one list
\* that starts empty; names is the list of the names returned so far
export_call(base_name, so_far) ==
    [names |-> Append(so_far.names,
                      get_unique_sheet_name(base_name, so_far.used_names).name),
     used_names |-> get_unique_sheet_name(base_name, so_far.used_names).used_names]

run_export(name1, name2) ==
    export_call(recoverable_matrix_title(name1, name2),
      export_call(ooip_matrix_title(name1, name2),
        export_call(str_tornado,
          export_call(str_single,
            export_call(str_base_case, [names |-> <<>>, used_names |-> <<>>])))))

----------------------------------------------------------------------------
(* State *)

VARIABLES
    area, thickness, porosity, water_saturation, oil_fvf, recovery_factor,
    param_to_analyze, param1, param2,
    ooip, recoverable_reserves,
    sensitivity_df, min_ooip, max_ooip, min_recoverable, max_recoverable,
    tornado,
    matrix,
    used_sheet_names, sheet_names,
    reruns

widget_vars ==
    <<area, thickness, porosity, water_saturation, oil_fvf, recovery_factor,
      param_to_analyze, param1, param2>>

result_vars ==
    <<ooip, recoverable_reserves, sensitivity_df, min_ooip, max_ooip,
      min_recoverable, max_recoverable, tornado, matrix>>

vars == <<widget_vars, result_vars, used_sheet_names, sheet_names, reruns>>

\* the inputs of the current run
current ==
    inputs(area, thickness, porosity, water_saturation, oil_fvf, recovery_factor)

\* number of reruns explored after the first run
MaxReruns == 2

\* number of get_unique_sheet_name calls explored on one list
MaxCalls == 4

\* The script from top to bottom with the widgets at the given values; button
\* is the return value of st.button.  A run that does not export has no
\* used_sheet_names.
Script(inp, pa, n1, n2, button) ==
    /\ area' = inp.area
    /\ thickness' = inp.thickness
    /\ porosity' = inp.porosity
    /\ water_saturation' = inp.water_saturation
    /\ oil_fvf' = inp.oil_fvf
    /\ recovery_factor' = inp.recovery_factor
    /\ param_to_analyze' = pa
    /\ param1' = n1
    /\ param2' = n2
    /\ ooip' = base_case_ooip(inp)
    /\ recoverable_reserves' = base_case_recoverable(inp, ooip')
    /\ sensitivity_df' = run_sweep(inp, ooip', pa)
    /\ min_ooip' = seq_min(sensitivity_df'.ooip, 1, sweep_points)
    /\ max_ooip' = seq_max(sensitivity_df'.ooip, 1, sweep_points)
    /\ min_recoverable' = seq_min(sensitivity_df'.recoverable, 1, sweep_points)
    /\ max_recoverable' = seq_max(sensitivity_df'.recoverable, 1, sweep_points)
    /\ tornado' = run_tornado(inp, ooip')
    /\ matrix' = run_matrix(inp, ooip', n1, n2)
    /\ used_sheet_names' = IF button THEN run_export(n1, n2).used_names ELSE <<>>
    /\ sheet_names' = IF button THEN run_export(n1, n2).names ELSE <<>>

\* the first run: every widget at its default, the button not clicked
first_run_with(inp, base, sw) ==
    /\ area = inp.area
    /\ thickness = inp.thickness
    /\ porosity = inp.porosity
    /\ water_saturation = inp.water_saturation
    /\ oil_fvf = inp.oil_fvf
    /\ recovery_factor = inp.recovery_factor
    /\ param_to_analyze = Parameters[1]
    /\ param1 = Parameters[1]
    /\ param2 = Parameters[1]
    /\ ooip = base
    /\ recoverable_reserves = base_case_recoverable(inp, base)
    /\ sensitivity_df = sw
    /\ min_ooip = seq_min(sw.ooip, 1, sweep_points)
    /\ max_ooip = seq_max(sw.ooip, 1, sweep_points)
    /\ min_recoverable = seq_min(sw.recoverable, 1, sweep_points)
    /\ max_recoverable = seq_max(sw.recoverable, 1, sweep_points)
    /\ tornado = run_tornado(inp, base)
    /\ matrix = run_matrix(inp, base, Parameters[1], Parameters[1])
    /\ used_sheet_names = <<>>
    /\ sheet_names = <<>>
    /\ reruns = 0

first_run(inp, base) == first_run_with(inp, base, run_sweep(inp, base, Parameters[1]))

Init == first_run(default_inputs, base_case_ooip(default_inputs))

Rerun(inp, pa, n1, n2, button) ==
    /\ reruns < MaxReruns
    /\ reruns' = reruns + 1
    /\ Script(inp, pa, n1, n2, button)

\* the user moves one input widget
SetArea ==
    \E v \in area_choices \ {area} :
        Rerun(inputs(v, thickness, porosity, water_saturation, oil_fvf,
                     recovery_factor),
              param_to_analyze, param1, param2, FALSE)

SetThickness ==
    \E v \in thickness_choices \ {thickness} :
        Rerun(inputs(area, v, porosity, water_saturation, oil_fvf, recovery_factor),
              param_to_analyze, param1, param2, FALSE)

SetPorosity ==
    \E v \in porosity_choices \ {porosity} :
        Rerun(inputs(area, thickness, v, water_saturation, oil_fvf, recovery_factor),
              param_to_analyze, param1, param2, FALSE)

SetWaterSaturation ==
    \E v \in water_saturation_choices \ {water_saturation} :
        Rerun(inputs(area, thickness, porosity, v, oil_fvf, recovery_factor),
              param_to_analyze, param1, param2, FALSE)

SetOilFVF ==
    \E v \in oil_fvf_choices \ {oil_fvf} :
        Rerun(inputs(area, thickness, porosity, water_saturation, v, recovery_factor),
              param_to_analyze, param1, param2, FALSE)

SetRecoveryFactor ==
    \E v \in recovery_factor_choices \ {recovery_factor} :
        Rerun(inputs(area, thickness, porosity, water_saturation, oil_fvf, v),
              param_to_analyze, param1, param2, FALSE)

\* the user picks another option in a selectbox
SelectParamToAnalyze ==
    \E q \in ParameterSet \ {param_to_analyze} :
        Rerun(current, q, param1, param2, FALSE)

SelectParam1 ==
    \E q \in ParameterSet \ {param1} :
        Rerun(current, param_to_analyze, q, param2, FALSE)

SelectParam2 ==
    \E q \in ParameterSet \ {param2} :
        Rerun(current, param_to_analyze, param1, q, FALSE)

\* the user clicks "Generate Comprehensive Excel Report"
Export == Rerun(current, param_to_analyze, param1, param2, TRUE)

Next ==
    \/ SetArea
    \/ SetThickness
    \/ SetPorosity
    \/ SetWaterSaturation
    \/ SetOilFVF
    \/ SetRecoveryFactor
    \/ SelectParamToAnalyze
    \/ SelectParam1
    \/ SelectParam2
    \/ Export

Spec == Init /\ [][Next]_vars

----------------------------------------------------------------------------
(* get_unique_sheet_name on its own: any sequence of calls on one list *)

\* base names passed to get_unique_sheet_name: two of the export's matrix
\* titles that agree on their first 31 characters, a short literal, and names
\* that collide once the invalid characters are replaced
BaseNames ==
    {str_base_case,
     recoverable_matrix_title("Water Saturation", "Oil FVF"),
     recoverable_matrix_title("Water Saturation", "Recovery Factor"),
     <<"A", "/", "B">>,
     <<"A", "_", "B">>,
     <<"A", ":", "B", "_", "1">>}

CallGetUniqueSheetName ==
    \E base_name \in BaseNames :
        /\ Len(sheet_names) < MaxCalls
        /\ used_sheet_names' =
               get_unique_sheet_name(base_name, used_sheet_names).used_names
        /\ sheet_names' =
               Append(sheet_names,
                      get_unique_sheet_name(base_name, used_sheet_names).name)
        /\ UNCHANGED <<widget_vars, result_vars, reruns>>

NextSheet == CallGetUniqueSheetName

SpecSheet == Init /\ [][NextSheet]_vars

----------------------------------------------------------------------------
(* Properties *)

\* the inputs with the field a parameter names replaced by v
substitute(inp, param, v) ==
    inputs(IF param = "Area" THEN v ELSE inp.area,
           IF param = "Thickness" THEN v ELSE inp.thickness,
           IF param = "Porosity" THEN v ELSE inp.porosity,
           IF param = "Water Saturation" THEN v ELSE inp.water_saturation,
           IF param = "Oil FVF" THEN v ELSE inp.oil_fvf,
           IF param = "Recovery Factor" THEN v ELSE inp.recovery_factor)

\* the k-th of num evenly spaced values over [lo * base, hi * base]
spaced(base, lo, hi, k, num) ==
    Mul(base, Add(lo, Div(Mul(Num(k - 1), Sub(hi, lo)), Num(num - 1))))

Cells == (1..matrix_points) \X (1..matrix_points)

\* the OOIP formula with param1 replaced by the i-th and param2 by the j-th
\* value of their 0.8 .. 1.2 grids
matrix_reference(i, j) ==
    base_case_ooip(
        substitute(
            substitute(current, param1,
                       spaced(eval_param(current, param1), Frac(8, 10), Frac(12, 10),
                              i, matrix_points)),
            param2,
            spaced(eval_param(current, param2), Frac(8, 10), Frac(12, 10),
                   j, matrix_points)))

matrix_shape_ok ==
    /\ Len(matrix.ooip) = matrix_points
    /\ \A i \in 1..matrix_points : Len(matrix.ooip[i]) = matrix_points

\* C1: for every ordered pair of two distinct parameters, in either selection
\* order, the OOIP grid is 10 x 10 and cell [i][j] is the formula with param1
\* replaced by the i-th and param2 by the j-th of 10 evenly spaced values over
\* 0.8 .. 1.2 of their bases.
C1_MatrixEveryOrderedPair ==
    param1 # param2 =>
        /\ matrix_shape_ok
        /\ \A c \in Cells : matrix.ooip[c[1]][c[2]] = matrix_reference(c[1], c[2])

\* position of a parameter in the selectbox options
position(param) == CHOOSE k \in 1..Len(Parameters) : Parameters[k] = param

\* C1, the part the script computes: the same statement for the pairs selected
\* in the order of the options (param1 before param2).
C1_MatrixListedPairs ==
    position(param1) < position(param2) =>
        /\ matrix_shape_ok
        /\ \A c \in Cells : matrix.ooip[c[1]][c[2]] = matrix_reference(c[1], c[2])

C1_ListedWitness ==
    /\ param1 = "Thickness"
    /\ param2 = "Oil FVF"
    /\ matrix.ooip[1][1] # matrix.ooip[1][2]
    /\ matrix.ooip[1][1] # matrix.ooip[2][1]

\* x / 100
percent(x) == Div(x, Hundred)

\* the recovery factor in effect at a point where param is the varied
\* parameter and v its swept or perturbed value
effective_rf(param, v) ==
    IF param = "Recovery Factor" THEN percent(v) ELSE percent(recovery_factor)

\* C2: at every point of the base case, the sweep, the tornado and the matrix,
\* recoverable = the OOIP of that point times the recovery factor in effect
\* there: the swept or perturbed Recovery Factor value when Recovery Factor is
\* the varied parameter, the base recovery factor otherwise.
C2_RecoverableIsOoipTimesRf ==
    /\ recoverable_reserves = Mul(ooip, percent(recovery_factor))
    /\ \A k \in 1..sweep_points :
          sensitivity_df.recoverable[k] =
              Mul(sensitivity_df.ooip[k],
                  effective_rf(param_to_analyze, sensitivity_df.param[k]))
    /\ \A q \in ParameterSet :
          /\ tornado.recoverable_low[q] =
                 Mul(tornado.ooip_low[q], effective_rf(q, tornado.param_low_values[q]))
          /\ tornado.recoverable_high[q] =
                 Mul(tornado.ooip_high[q], effective_rf(q, tornado.param_high_values[q]))
    /\ \A c \in Cells :
          \/ /\ param1 = "Recovery Factor"
             /\ matrix.recoverable[c[1]][c[2]] =
                    Mul(matrix.ooip[c[1]][c[2]], percent(matrix.param1_range[c[1]]))
          \/ /\ param2 = "Recovery Factor"
             /\ matrix.recoverable[c[1]][c[2]] =
                    Mul(matrix.ooip[c[1]][c[2]], percent(matrix.param2_range[c[2]]))
          \/ /\ param1 # "Recovery Factor"
             /\ param2 # "Recovery Factor"
             /\ matrix.recoverable[c[1]][c[2]] =
                    Mul(matrix.ooip[c[1]][c[2]], percent(recovery_factor))

\* a run where Recovery Factor is swept in tab 1 and is param2 of the matrix,
\* so that the recoverable figures are not OOIP times the base recovery factor
C2_Witness ==
    /\ param_to_analyze = "Recovery Factor"
    /\ param2 = "Recovery Factor"
    /\ param1 # "Recovery Factor"
    /\ matrix.recoverable[1][1] # Mul(matrix.ooip[1][1], percent(recovery_factor))
    /\ sensitivity_df.recoverable[1] # Mul(sensitivity_df.ooip[1], percent(recovery_factor))

\* a step that changes recovery_factor and no other widget
only_rf_changes ==
    /\ recovery_factor' # recovery_factor
    /\ area' = area
    /\ thickness' = thickness
    /\ porosity' = porosity
    /\ water_saturation' = water_saturation
    /\ oil_fvf' = oil_fvf
    /\ param_to_analyze' = param_to_analyze
    /\ param1' = param1
    /\ param2' = param2

\* C3: two runs whose inputs differ only in recovery_factor, under the same
\* selections, have the same base OOIP, the same sweep OOIP values, the same
\* tornado ooip_low / ooip_high and the same matrix OOIP grid.
C3_OoipIndependentOfRf ==
    [][only_rf_changes =>
          /\ ooip' = ooip
          /\ sensitivity_df'.ooip = sensitivity_df.ooip
          /\ tornado'.ooip_low = tornado.ooip_low
          /\ tornado'.ooip_high = tornado.ooip_high
          /\ matrix'.ooip = matrix.ooip]_vars

\* a run after recovery_factor was moved away from its default while it is
\* the swept parameter: the swept values moved, the OOIP column did not
C3_Witness ==
    /\ recovery_factor # default_inputs.recovery_factor
    /\ param_to_analyze = "Recovery Factor"
    /\ sensitivity_df.param[1] = Mul(recovery_factor, Frac(1, 2))
    /\ sensitivity_df.param[1] # Mul(default_inputs.recovery_factor, Frac(1, 2))
    /\ sensitivity_df.ooip[1] = base_case_ooip(default_inputs)

\* the formula with oil_fvf replaced by oil_fvf * factor, the rest at base
ooip_at_fvf(factor) ==
    base_case_ooip(substitute(current, "Oil FVF", Mul(oil_fvf, factor)))

\* C4: with variation 0.2, ooip_low["Oil FVF"] is the formula at
\* oil_fvf x 1.2 and ooip_high["Oil FVF"] the formula at oil_fvf x 0.8, so
\* that ooip_low < base OOIP < ooip_high for Oil FVF.
C4_TornadoFvfSwapped ==
    /\ tornado.ooip_low["Oil FVF"] = ooip_at_fvf(Frac(12, 10))
    /\ tornado.ooip_high["Oil FVF"] = ooip_at_fvf(Frac(8, 10))
    /\ Less(tornado.ooip_low["Oil FVF"], ooip)
    /\ Less(ooip, tornado.ooip_high["Oil FVF"])

C4_Witness ==
    /\ oil_fvf = Frac(5, 2)
    /\ tornado.param_high_values["Oil FVF"] = Num(3)
    /\ tornado.ooip_low["Oil FVF"] # tornado.ooip_high["Oil FVF"]

\* the ends of the sweep range of a parameter, as multiples of its base
sweep_lo(param) == IF param = "Oil FVF" THEN Frac(8, 10) ELSE Frac(5, 10)

sweep_hi(param) == IF param = "Oil FVF" THEN Frac(12, 10) ELSE Frac(15, 10)

\* C5: the sweep yields exactly 100 points, ascending in the swept value,
\* from 0.5 x base to 1.5 x base (0.8 and 1.2 for Oil FVF), evenly spaced; the
\* OOIP and recoverable columns have the same length and order, each OOIP
\* being the formula with only the swept field replaced.
C5_SweepGeneration ==
    /\ Len(sensitivity_df.param) = sweep_points
    /\ Len(sensitivity_df.ooip) = sweep_points
    /\ Len(sensitivity_df.recoverable) = sweep_points
    /\ sensitivity_df.param[1] =
           Mul(eval_param(current, param_to_analyze), sweep_lo(param_to_analyze))
    /\ sensitivity_df.param[sweep_points] =
           Mul(eval_param(current, param_to_analyze), sweep_hi(param_to_analyze))
    /\ \A k \in 1..(sweep_points - 1) :
          /\ Leq(sensitivity_df.param[k], sensitivity_df.param[k + 1])
          /\ Sub(sensitivity_df.param[k + 1], sensitivity_df.param[k]) =
                 Sub(sensitivity_df.param[2], sensitivity_df.param[1])
    /\ \A k \in 1..sweep_points :
          sensitivity_df.ooip[k] =
              base_case_ooip(substitute(current, param_to_analyze,
                                        sensitivity_df.param[k]))

C5_Witness ==
    /\ param_to_analyze = "Oil FVF"
    /\ oil_fvf = Num(1)
    /\ sensitivity_df.param[1] = Frac(8, 10)
    /\ sensitivity_df.param[sweep_points] = Frac(12, 10)

\* C6: a sweep over Recovery Factor leaves every OOIP entry at the base OOIP
\* and has recoverable = base OOIP x swept value; the tornado entries of
\* Recovery Factor have ooip_low = ooip_high = base OOIP and recoverable
\* low / high = base OOIP x perturbed recovery factor.
C6_RfLeavesOoipAtBase ==
    /\ param_to_analyze = "Recovery Factor" =>
          \A k \in 1..sweep_points :
              /\ sensitivity_df.ooip[k] = ooip
              /\ sensitivity_df.recoverable[k] =
                     Mul(ooip, percent(sensitivity_df.param[k]))
    /\ tornado.ooip_low["Recovery Factor"] = ooip
    /\ tornado.ooip_high["Recovery Factor"] = ooip
    /\ tornado.recoverable_low["Recovery Factor"] =
           Mul(ooip, percent(Mul(recovery_factor, Frac(8, 10))))
    /\ tornado.recoverable_high["Recovery Factor"] =
           Mul(ooip, percent(Mul(recovery_factor, Frac(12, 10))))

C6_Witness ==
    /\ param_to_analyze = "Recovery Factor"
    /\ sensitivity_df.recoverable[1] # sensitivity_df.recoverable[sweep_points]
    /\ tornado.recoverable_low["Recovery Factor"]
           # tornado.recoverable_high["Recovery Factor"]

\* a step that changes one of the five fields of the formula and none of the
\* other four
only_area_changes ==
    /\ thickness' = thickness /\ porosity' = porosity
    /\ water_saturation' = water_saturation /\ oil_fvf' = oil_fvf

only_thickness_changes ==
    /\ area' = area /\ porosity' = porosity
    /\ water_saturation' = water_saturation /\ oil_fvf' = oil_fvf

only_porosity_changes ==
    /\ area' = area /\ thickness' = thickness
    /\ water_saturation' = water_saturation /\ oil_fvf' = oil_fvf

only_water_saturation_changes ==
    /\ area' = area /\ thickness' = thickness
    /\ porosity' = porosity /\ oil_fvf' = oil_fvf

only_oil_fvf_changes ==
    /\ area' = area /\ thickness' = thickness
    /\ porosity' = porosity /\ water_saturation' = water_saturation

no_formula_field_changes ==
    /\ area' = area /\ thickness' = thickness /\ porosity' = porosity
    /\ water_saturation' = water_saturation /\ oil_fvf' = oil_fvf

\* the base OOIP moves with x, strictly (x the field before, y after)
rises_with(x, y) ==
    /\ Less(x, y) => Less(ooip, ooip')
    /\ Less(y, x) => Less(ooip', ooip)

falls_with(x, y) ==
    /\ Less(x, y) => Less(ooip', ooip)
    /\ Less(y, x) => Less(ooip, ooip')

\* C7: the OOIP formula is strictly increasing in each of area, thickness and
\* porosity, strictly decreasing in each of water_saturation and oil_fvf (the
\* other fields held fixed) and independent of recovery_factor; a sweep over
\* Oil FVF has its maximum OOIP at the first point and its minimum OOIP at
\* the last.
C7_FormulaMonotone ==
    [][/\ only_area_changes => rises_with(area, area')
       /\ only_thickness_changes => rises_with(thickness, thickness')
       /\ only_porosity_changes => rises_with(porosity, porosity')
       /\ only_water_saturation_changes =>
              falls_with(water_saturation, water_saturation')
       /\ only_oil_fvf_changes => falls_with(oil_fvf, oil_fvf')
       /\ no_formula_field_changes => ooip' = ooip
       /\ param_to_analyze' = "Oil FVF" =>
              /\ max_ooip' = sensitivity_df'.ooip[1]
              /\ min_ooip' = sensitivity_df'.ooip[sweep_points]
              /\ \A k \in 2..sweep_points :
                    Less(sensitivity_df'.ooip[k], sensitivity_df'.ooip[k - 1])]_vars

\* a run of the Oil FVF sweep after water_saturation was moved
C7_Witness ==
    /\ param_to_analyze = "Oil FVF"
    /\ water_saturation # default_inputs.water_saturation
    /\ Less(min_ooip, max_ooip)

\* C8: with param1 = param2 the matrix evaluation does not fail and every
\* cell of the 10 x 10 OOIP grid is the base-case OOIP.
C8_DegenerateSelection ==
    param1 = param2 =>
        /\ matrix_shape_ok
        /\ \A c \in Cells : matrix.ooip[c[1]][c[2]] = ooip

\* a run with the same parameter picked twice, other than the first run
C8_Witness ==
    /\ param1 = "Porosity"
    /\ param2 = "Porosity"
    /\ matrix.param1_range[1] # matrix.param1_range[matrix_points]
    /\ matrix.ooip[1][1] = matrix.ooip[matrix_points][matrix_points]

\* C9: after any sequence of get_unique_sheet_name calls on one used_names
\* list that starts empty, the names returned are pairwise distinct, each was
\* not in used_names before its call, and used_names is the list of the
\* returned names in call order.
C9_SheetNamesUnique ==
    /\ used_sheet_names = sheet_names
    /\ \A k \in 1..Len(sheet_names) :
          \A m \in 1..(k - 1) : sheet_names[m] # sheet_names[k]
    /\ \A k \in 1..Len(sheet_names) :
          sheet_names[k] \notin elements(SubSeq(used_sheet_names, 1, k - 1))

\* three calls whose base names all truncate to A_B: the second and third
\* get a suffix
C9_Witness ==
    /\ Len(sheet_names) >= 3
    /\ sheet_names[1] = <<"A", "_", "B">>
    /\ sheet_names[2] = <<"A", "_", "B", "_", "1">>
    /\ sheet_names[3] = <<"A", "_", "B", "_", "1", "_", "1">>

\* C10: every name returned by get_unique_sheet_name is at most 31 characters
\* long and contains none of the characters : \ / ? * [ ].
C10_SheetNameLength ==
    \A k \in 1..Len(sheet_names) :
        /\ Len(sheet_names[k]) <= sheet_name_limit
        /\ elements(sheet_names[k]) \cap invalid_chars = {}


----------------------------------------------------------------------------
(* Tornado orientation *)

\* the low and high entries of one parameter bracket the base values
bracketed(param) ==
    /\ Leq(tornado.ooip_low[param], ooip)
    /\ Leq(ooip, tornado.ooip_high[param])
    /\ Leq(tornado.recoverable_low[param], recoverable_reserves)
    /\ Leq(recoverable_reserves, tornado.recoverable_high[param])

\* C12: for every one of the six parameters, ooip_low <= base OOIP <=
\* ooip_high and recoverable_low <= base recoverable <= recoverable_high.
C12_TornadoOrientation ==
    \A param \in ParameterSet : bracketed(param)

\* the same statement for the parameters other than Water Saturation, whose
\* branch of the tornado loop evaluates the low saturation under the low label
C12_OrientationExceptWaterSaturation ==
    \A param \in ParameterSet \ {"Water Saturation"} : bracketed(param)

\* for Water Saturation the entries are the other way round
C12_WaterSaturationReversed ==
    /\ Less(ooip, tornado.ooip_low["Water Saturation"])
    /\ Less(tornado.ooip_high["Water Saturation"], ooip)
    /\ Less(recoverable_reserves, tornado.recoverable_low["Water Saturation"])
    /\ Less(tornado.recoverable_high["Water Saturation"], recoverable_reserves)

----------------------------------------------------------------------------
(* Divisors and signs *)

PercentParameters == {"Porosity", "Water Saturation", "Recovery Factor"}

positive(x) == Less(Zero, x)

\* strictly between 0 and 100 %
proper_percent(x) == Less(Zero, x) /\ Less(x, Hundred)

\* the values a parameter takes in the sweep, the tornado and the matrix of
\* the current run
varied_values(param) ==
    {tornado.param_low_values[param], tornado.param_high_values[param]}
    \cup (IF param_to_analyze = param
          THEN elements(sensitivity_df.param) ELSE {})
    \cup (IF param1 = param THEN elements(matrix.param1_range) ELSE {})
    \cup (IF param2 = param THEN elements(matrix.param2_range) ELSE {})

\* an OOIP with the recoverable value computed from it
sound_pair(o, r) == positive(o) /\ positive(r) /\ Less(r, o)

\* C13: in every run, every oil_fvf value used as a divisor (base case,
\* sweep, tornado, matrix) is > 0; every swept or perturbed porosity, water
\* saturation and recovery factor value is strictly between 0 and 100 %; and
\* every OOIP and recoverable value computed is > 0 with recoverable < OOIP,
\* the base values that divide the variation percentages included.
C13_NoDivisionByZero ==
    /\ positive(oil_fvf)
    /\ \A v \in varied_values("Oil FVF") : positive(v)
    /\ \A param \in PercentParameters :
          /\ proper_percent(eval_param(current, param))
          /\ \A v \in varied_values(param) : proper_percent(v)
    /\ sound_pair(ooip, recoverable_reserves)
    /\ \A k \in 1..sweep_points :
          sound_pair(sensitivity_df.ooip[k], sensitivity_df.recoverable[k])
    /\ \A param \in ParameterSet :
          /\ sound_pair(tornado.ooip_low[param], tornado.recoverable_low[param])
          /\ sound_pair(tornado.ooip_high[param], tornado.recoverable_high[param])
    /\ \A c \in Cells :
          sound_pair(matrix.ooip[c[1]][c[2]], matrix.recoverable[c[1]][c[2]])

\* a run at the upper bound of the water saturation slider that sweeps water
\* saturation: the last swept value is 75 %, the largest any run reaches
C13_Witness ==
    /\ water_saturation = Num(50)
    /\ param_to_analyze = "Water Saturation"
    /\ sensitivity_df.param[sweep_points] = Num(75)
    /\ Less(sensitivity_df.ooip[sweep_points], ooip)
    /\ positive(sensitivity_df.ooip[sweep_points])
====
